---------------------------- MODULE Spec2Model ----------------------------
(***************************************************************************)
(* Model of src/streamlit_app.py (Nina Tracker): the 06:00-06:00 cycle     *)
(* assignment done at load, the per-cycle averages, the search for         *)
(* historical cycles similar to today's partially elapsed cycle, and the   *)
(* projection of the rest of the cycle from the similar ones.              *)
(*                                                                         *)
(* A data frame is a sequence of records (row order is kept, as pandas     *)
(* keeps it).  An instant is a number of minutes of local wall-clock time  *)
(* (America/Sao_Paulo) counted from 00:00 of day 0; day k stands for the   *)
(* calendar date 2024-01-09 + k, so day 1 is 2024-01-10.  A mean is kept   *)
(* as the exact fraction [num, den].                                       *)
(*                                                                         *)
(* The script is one top-to-bottom run; pc is the position in it.  The     *)
(* widgets and the clock are inputs: the key category (selectbox), the     *)
(* tolerance (slider), today's value (number_input) and the minutes        *)
(* elapsed in today's cycle (time_passed_minutes, lines 119-147) are drawn *)
(* when the similarity step reads them.                                    *)
(***************************************************************************)
EXTENDS Integers, Sequences, FiniteSets, TLC

VARIABLES
    csv,                      \* the rows pd.read_csv returns (line 24)
    pc,                       \* position of the run in the script
    df_raw,                   \* line 54
    df_history,               \* line 65
    daily_totals_history,     \* line 72
    avg_totals,               \* line 75
    similarity_category,      \* line 163
    similarity_threshold,     \* line 169
    today_key_value,          \* line 178
    time_passed_minutes,      \* line 147
    historical_key_totals_df, \* lines 207-210
    similar_days_df,          \* line 211
    similar_days,             \* line 213
    shown_similar,            \* the table displayed at lines 225-228
    df_projection,            \* line 249
    projection_final,         \* line 255
    shown_projection          \* the table displayed at lines 259-262

vars == <<csv, pc, df_raw, df_history, daily_totals_history, avg_totals,
          similarity_category, similarity_threshold, today_key_value,
          time_passed_minutes, historical_key_totals_df, similar_days_df,
          similar_days, shown_similar, df_projection, projection_final,
          shown_projection>>

---------------------------------------------------------------------------
(* Program constants *)

N_DIAS_HISTORICO == 15

\* FUSO_HORARIO = 'America/Sao_Paulo': local time is UTC-3 (no DST since 2019)
UtcOffsetHours == 3

\* the literal 6 of lines 43, 140/143, 189 and 243
BoundaryHour == 6

MAIN_CATEGORIES == <<"Acordada", "Mamou", "Dormiu">>

\* a missing value of the 'categories' column
NaN == "NaN"

\* the category labels of the model, in the (lexicographic) order in which
\* groupby sorts its string keys
CategoryOrder == <<"Acordada", "Banho", "Dormiu", "Mamou">>

MinutesPerDay == 24 * 60

---------------------------------------------------------------------------
(* Bounds and input sets *)

\* rows in the CSV
MaxRows == 3

At(day, hh, mm) == day * MinutesPerDay + hh * 60 + mm

Row(s, e, c, d) ==
    [time_started |-> s, time_ended |-> e, categories |-> c,
     duration_minutes |-> d]

\* The rows a CSV of the model is made of.
RowMenu ==
    { Row(At(0, 8, 0),   At(0, 13, 0),  "Dormiu", 300),
      Row(At(1, 6, 0),   At(1, 12, 0),  "Dormiu", 360),
      Row(At(2, 6, 0),   At(2, 13, 0),  "Dormiu", 420),
      Row(At(0, 16, 0),  At(0, 17, 0),  "Mamou",  60),
      Row(At(1, 18, 0),  At(1, 20, 5),  "Mamou",  125),
      Row(At(0, 14, 0),  At(0, 14, 20), "Banho",  20),
      \* time_ended before time_started
      Row(At(1, 17, 0),  At(1, 15, 0),  "Dormiu", 30),
      \* starts at 05:59 local; duration_minutes missing, coerced to 0
      Row(At(1, 5, 59),  At(1, 6, 10),  "Mamou",  0),
      \* starts at 22:00 local (01:00 UTC of the next day)
      Row(At(1, 22, 0),  At(1, 23, 0),  "Dormiu", 60),
      \* no category
      Row(At(2, 9, 0),   At(2, 10, 0),  NaN,      45) }

RECURSIVE SeqsUpTo(_, _)
SeqsUpTo(S, n) ==
    IF n = 0 THEN {<<>>}
    ELSE LET shorter == SeqsUpTo(S, n - 1)
         IN  shorter \cup
             {Append(s, x) : s \in {t \in shorter : Len(t) = n - 1}, x \in S}

\* st.selectbox(options=MAIN_CATEGORIES): the options tried
KeyChoices == {"Mamou", "Dormiu"}
\* st.slider(min_value=30, max_value=120, step=10): the values tried
Thresholds == {30, 50}
\* st.number_input(min_value=0): the values tried
TodayValues == {0, 350}
\* minutes elapsed since 06:00 of today's cycle: the values tried
Cutoffs == {420, 600}

---------------------------------------------------------------------------
(* Generic data-frame helpers *)

Range(s) == {s[i] : i \in 1..Len(s)}

Abs(x) == IF x < 0 THEN -x ELSE x

RECURSIVE SortedSeq(_)
\* the elements of a finite set of integers in ascending order
SortedSeq(S) ==
    IF S = {} THEN <<>>
    ELSE LET m == CHOOSE x \in S : \A y \in S : x <= y
         IN  <<m>> \o SortedSeq(S \ {m})

RECURSIVE Concat(_)
\* pd.concat of a non-empty list of frames
Concat(frames) ==
    IF frames = <<>> THEN <<>> ELSE Head(frames) \o Concat(Tail(frames))

RECURSIVE SumDuration(_)
\* ['duration_minutes'].sum()
SumDuration(df) ==
    IF df = <<>> THEN 0
    ELSE Head(df).duration_minutes + SumDuration(Tail(df))

RECURSIVE MinDuration(_)
MinDuration(df) ==
    IF Len(df) = 1 THEN df[1].duration_minutes
    ELSE LET m == MinDuration(Tail(df))
         IN  IF df[1].duration_minutes < m THEN df[1].duration_minutes ELSE m

RECURSIVE MaxDuration(_)
MaxDuration(df) ==
    IF Len(df) = 1 THEN df[1].duration_minutes
    ELSE LET m == MaxDuration(Tail(df))
         IN  IF df[1].duration_minutes > m THEN df[1].duration_minutes ELSE m

\* the rows of df whose cycle_date is d, in row order
RowsOfCycle(df, d) ==
    LET Keep(r) == r.cycle_date = d IN SelectSeq(df, Keep)

\* the rows of df whose category is c, in row order
RowsOfCategory(df, c) ==
    LET Keep(r) == r.categories = c IN SelectSeq(df, Keep)

\* the keys of groupby('cycle_date'), ascending
CycleKeys(df) == SortedSeq({r.cycle_date : r \in Range(df)})

\* the keys of groupby('categories'), in string order
CategoryKeys(df) ==
    LET Present(c) == \E r \in Range(df) : r.categories = c
    IN  SelectSeq(CategoryOrder, Present)

---------------------------------------------------------------------------
(* 1. load_and_preprocess_data, lines 20-50 *)

\* line 40: the calendar date of time_started in the configured zone
LocalDate(t) == t \div MinutesPerDay

\* line 43: tz_convert(None) converts the zone-aware instant to UTC before
\* dropping the zone, and .dt.hour is the hour of that UTC instant
HourAfterTzConvertNone(t) ==
    ((t + UtcOffsetHours * 60) \div 60) % 24

is_early_morning(t) == HourAfterTzConvertNone(t) < BoundaryHour

\* lines 40-48
cycle_date_of(t) ==
    IF is_early_morning(t) THEN LocalDate(t) - 1 ELSE LocalDate(t)

\* line 37
dropna_categories(df) ==
    LET Keep(r) == r.categories # NaN IN SelectSeq(df, Keep)

load_and_preprocess_data(rows) ==
    LET kept == dropna_categories(rows)
    IN  [i \in 1..Len(kept) |->
            [time_started     |-> kept[i].time_started,
             time_ended       |-> kept[i].time_ended,
             categories       |-> kept[i].categories,
             duration_minutes |-> kept[i].duration_minutes,
             cycle_date       |-> cycle_date_of(kept[i].time_started)]]

\* lines 60-62
historical_cycles(df) ==
    LET all_cycle_dates == CycleKeys(df)
        n == Len(all_cycle_dates)
    IN  IF n <= N_DIAS_HISTORICO THEN all_cycle_dates
        ELSE SubSeq(all_cycle_dates, n - N_DIAS_HISTORICO + 1, n)

\* line 65
history_of(df) ==
    LET cycles == Range(historical_cycles(df))
        Keep(r) == r.cycle_date \in cycles
    IN  SelectSeq(df, Keep)

---------------------------------------------------------------------------
(* 2. Summary, lines 72-77 *)

\* groupby(['cycle_date', 'categories'])['duration_minutes'].sum()
\* .reset_index(): one row per (cycle, category) that occurs, sorted
group_sum(df) ==
    LET dates == CycleKeys(df)
        PerCycle(d) ==
            LET g == RowsOfCycle(df, d)
                cats == CategoryKeys(g)
            IN  [j \in 1..Len(cats) |->
                    [cycle_date       |-> d,
                     categories       |-> cats[j],
                     duration_minutes |->
                         SumDuration(RowsOfCategory(g, cats[j]))]]
    IN  Concat([i \in 1..Len(dates) |-> PerCycle(dates[i])])

\* variant of group_mean: divides each category's total by the number of
\* all cycles of the frame, not by the number of its per-cycle sums
group_mean_over_all_cycles(totals) ==
    LET cats == CategoryKeys(totals)
    IN  [j \in 1..Len(cats) |->
            LET g == RowsOfCategory(totals, cats[j])
            IN  [Categoria |-> cats[j],
                 mean      |-> [num |-> SumDuration(g),
                                den |-> Len(CycleKeys(totals))]]]

\* line 75: groupby('categories')['duration_minutes'].mean()
group_mean(totals) ==
    LET cats == CategoryKeys(totals)
    IN  [j \in 1..Len(cats) |->
            LET g == RowsOfCategory(totals, cats[j])
            IN  [Categoria |-> cats[j],
                 mean      |-> [num |-> SumDuration(g), den |-> Len(g)]]]

---------------------------------------------------------------------------
(* 5.1 Similar days, lines 181-228 *)

\* lines 189 and 243
cycle_start(d) == d * MinutesPerDay + BoundaryHour * 60

\* lines 191 and 244
cutoff_time(d, minutes) == cycle_start(d) + minutes

\* variant of ended_before: <= instead of <
ended_before_or_at(group, cutoff) ==
    LET Keep(r) == r.time_ended <= cutoff IN SelectSeq(group, Keep)

\* line 194
ended_before(group, cutoff) ==
    LET Keep(r) == r.time_ended < cutoff IN SelectSeq(group, Keep)

\* lines 182-204
calculate_historical_value(df_hist, key_category, cutoff_minutes) ==
    LET dates == CycleKeys(df_hist)
    IN  [i \in 1..Len(dates) |->
            LET group == RowsOfCycle(df_hist, dates[i])
                df_filtered ==
                    ended_before(group, cutoff_time(dates[i], cutoff_minutes))
            IN  [cycle_date         |-> dates[i],
                 key_category_total |->
                     SumDuration(RowsOfCategory(df_filtered, key_category))]]

\* line 210
with_difference(totals, today) ==
    [i \in 1..Len(totals) |->
        [cycle_date         |-> totals[i].cycle_date,
         key_category_total |-> totals[i].key_category_total,
         difference         |-> Abs(totals[i].key_category_total - today)]]

\* variant of within_threshold: < instead of <=
within_threshold_strict(totals, threshold) ==
    LET Keep(r) == r.difference < threshold IN SelectSeq(totals, Keep)

\* line 211
within_threshold(totals, threshold) ==
    LET Keep(r) == r.difference <= threshold IN SelectSeq(totals, Keep)

\* line 213
cycle_date_list(df) == [i \in 1..Len(df) |-> df[i].cycle_date]

\* variant of no_similar_days: the guard of line 220 never stops the run
no_similar_days_never(days) == FALSE

\* line 220
no_similar_days(days) == days = <<>>

\* variant of sort_values_difference: the frame is shown unsorted
sort_values_none(df) == {df}

\* line 226: sort_values('difference'); the order of rows of equal
\* difference is whatever the sort leaves, so every arrangement is allowed
sort_values_difference(df) ==
    { [i \in 1..Len(df) |-> df[p[i]]] : p \in
        { q \in Permutations(1..Len(df)) :
            \A i \in 1..(Len(df) - 1) :
                df[q[i]].difference <= df[q[i + 1]].difference } }

---------------------------------------------------------------------------
(* 5.2 Projection, lines 235-262 *)

\* line 236
rows_of_similar_days(df, days) ==
    LET Keep(r) == r.cycle_date \in Range(days) IN SelectSeq(df, Keep)

\* variant of started_from: > instead of >=
started_after(group, cutoff) ==
    LET Keep(r) == r.time_started > cutoff IN SelectSeq(group, Keep)

\* line 247
started_from(group, cutoff) ==
    LET Keep(r) == r.time_started >= cutoff IN SelectSeq(group, Keep)

RECURSIVE FirstSeen(_, _)
\* the distinct cycle dates of df in order of first appearance
FirstSeen(df, seen) ==
    IF df = <<>> THEN <<>>
    ELSE IF Head(df).cycle_date \in seen THEN FirstSeen(Tail(df), seen)
         ELSE <<Head(df).cycle_date>> \o
              FirstSeen(Tail(df), seen \cup {Head(df).cycle_date})

\* variant of projection_data: the groups are visited in order of first
\* appearance (groupby(sort=False)) instead of ascending cycle date
projection_data_unsorted(df_similar_days, minutes) ==
    LET dates == FirstSeen(df_similar_days, {})
    IN  [i \in 1..Len(dates) |->
            started_from(RowsOfCycle(df_similar_days, dates[i]),
                         cutoff_time(dates[i], minutes))]

\* lines 240-247: one frame per similar cycle, in groupby order
projection_data(df_similar_days, minutes) ==
    LET dates == CycleKeys(df_similar_days)
    IN  [i \in 1..Len(dates) |->
            started_from(RowsOfCycle(df_similar_days, dates[i]),
                         cutoff_time(dates[i], minutes))]

\* line 255: groupby('categories').agg(['min', 'mean', 'max'])
group_min_mean_max(summary) ==
    LET cats == CategoryKeys(summary)
    IN  [j \in 1..Len(cats) |->
            LET g == RowsOfCategory(summary, cats[j])
            IN  [Categoria |-> cats[j],
                 min       |-> MinDuration(g),
                 mean      |-> [num |-> SumDuration(g), den |-> Len(g)],
                 max       |-> MaxDuration(g)]]

\* line 260: rows of the main categories, .astype(int)
main_rows_as_int(final) ==
    LET Keep(r) == r.Categoria \in Range(MAIN_CATEGORIES)
        kept == SelectSeq(final, Keep)
    IN  [j \in 1..Len(kept) |->
            [Categoria |-> kept[j].Categoria,
             min       |-> kept[j].min,
             mean      |-> kept[j].mean.num \div kept[j].mean.den,
             max       |-> kept[j].max]]

---------------------------------------------------------------------------
(* The run of the script *)

Init ==
    /\ csv \in SeqsUpTo(RowMenu, MaxRows)
    /\ pc = "load"
    /\ df_raw = <<>>
    /\ df_history = <<>>
    /\ daily_totals_history = <<>>
    /\ avg_totals = <<>>
    /\ similarity_category = "Dormiu"
    /\ similarity_threshold = 60
    /\ today_key_value = 0
    /\ time_passed_minutes = 0
    /\ historical_key_totals_df = <<>>
    /\ similar_days_df = <<>>
    /\ similar_days = <<>>
    /\ shown_similar = <<>>
    /\ df_projection = <<>>
    /\ projection_final = <<>>
    /\ shown_projection = <<>>

\* line 54
Load ==
    /\ pc = "load"
    /\ df_raw' = load_and_preprocess_data(csv)
    /\ pc' = "loaded"
    /\ UNCHANGED <<csv, df_history, daily_totals_history, avg_totals,
                   similarity_category, similarity_threshold, today_key_value,
                   time_passed_minutes, historical_key_totals_df,
                   similar_days_df, similar_days, shown_similar,
                   df_projection, projection_final, shown_projection>>

\* lines 56-57: st.stop() on an empty frame
StopOnEmpty ==
    /\ pc = "loaded"
    /\ df_raw = <<>>
    /\ pc' = "stopped_empty"
    /\ UNCHANGED <<csv, df_raw, df_history, daily_totals_history, avg_totals,
                   similarity_category, similarity_threshold, today_key_value,
                   time_passed_minutes, historical_key_totals_df,
                   similar_days_df, similar_days, shown_similar,
                   df_projection, projection_final, shown_projection>>

\* lines 60-77
Summary ==
    /\ pc = "loaded"
    /\ df_raw # <<>>
    /\ df_history' = history_of(df_raw)
    /\ daily_totals_history' = group_sum(df_history')
    /\ avg_totals' = group_mean(daily_totals_history')
    /\ pc' = "similarity"
    /\ UNCHANGED <<csv, df_raw,
                   similarity_category, similarity_threshold, today_key_value,
                   time_passed_minutes, historical_key_totals_df,
                   similar_days_df, similar_days, shown_similar,
                   df_projection, projection_final, shown_projection>>

\* lines 119-228
Similarity ==
    /\ pc = "similarity"
    /\ \E cat \in KeyChoices, thr \in Thresholds,
          today \in TodayValues, minutes \in Cutoffs :
         LET totals == calculate_historical_value(df_history, cat, minutes)
         IN  /\ similarity_category' = cat
             /\ similarity_threshold' = thr
             /\ today_key_value' = today
             /\ time_passed_minutes' = minutes
             /\ IF totals = <<>>
                THEN \* line 210: KeyError 'key_category_total' on a frame
                     \* built from an empty list
                     /\ pc' = "error"
                     /\ UNCHANGED <<historical_key_totals_df, similar_days_df,
                                    similar_days, shown_similar>>
                ELSE /\ historical_key_totals_df' =
                            with_difference(totals, today)
                     /\ similar_days_df' =
                            within_threshold(historical_key_totals_df', thr)
                     /\ similar_days' = cycle_date_list(similar_days_df')
                     /\ IF no_similar_days(similar_days')
                        THEN \* lines 220-222: st.warning, st.stop()
                             /\ pc' = "stopped_no_similar"
                             /\ UNCHANGED shown_similar
                        ELSE /\ shown_similar' \in
                                    sort_values_difference(similar_days_df')
                             /\ pc' = "projection"
    /\ UNCHANGED <<csv, df_raw, df_history, daily_totals_history, avg_totals,
                   df_projection, projection_final, shown_projection>>

\* lines 235-262
Projection ==
    /\ pc = "projection"
    /\ LET df_similar_days == rows_of_similar_days(df_history, similar_days)
           df_projection_data ==
               projection_data(df_similar_days, time_passed_minutes)
       IN  IF df_projection_data = <<>>
           THEN \* line 249: pd.concat of an empty list raises ValueError
                /\ pc' = "error"
                /\ UNCHANGED <<df_projection, projection_final,
                               shown_projection>>
           ELSE /\ df_projection' = Concat(df_projection_data)
                /\ projection_final' =
                       group_min_mean_max(group_sum(df_projection'))
                /\ shown_projection' = main_rows_as_int(projection_final')
                /\ pc' = "done"
    /\ UNCHANGED <<csv, df_raw, df_history, daily_totals_history, avg_totals,
                   similarity_category, similarity_threshold, today_key_value,
                   time_passed_minutes, historical_key_totals_df,
                   similar_days_df, similar_days, shown_similar>>

Next == Load \/ StopOnEmpty \/ Summary \/ Similarity \/ Projection

Spec == Init /\ [][Next]_vars

---------------------------------------------------------------------------
(* Properties.  They are stated from the documented behaviour with their  *)
(* own arithmetic (local hour, cut-off instant, sums over index sets), not *)
(* with the operators of the run above.                                    *)

\* the similarity step has produced its tables
SimilarityRan == pc \in {"stopped_no_similar", "projection", "done"}

\* the run has ended
Halted == pc \in {"stopped_empty", "stopped_no_similar", "error", "done"}

\* the hour of the local wall-clock time of instant t
LocalHour(t) == (t \div 60) % 24

\* 06:00 local of cycle date d, plus the elapsed minutes of the run
CutoffInstant(d) == d * (24 * 60) + 6 * 60 + time_passed_minutes

RECURSIVE SumAt(_, _)
\* the sum of duration_minutes over the rows of df at the indices I
SumAt(df, I) ==
    IF I = {} THEN 0
    ELSE LET i == CHOOSE k \in I : TRUE
         IN  df[i].duration_minutes + SumAt(df, I \ {i})

\* how many rows of df are equal to r
Count(df, r) == Cardinality({i \in 1..Len(df) : df[i] = r})

IsAscendingBy(df, Key(_)) ==
    \A i \in 1..(Len(df) - 1) : Key(df[i]) <= Key(df[i + 1])

DifferenceOf(r) == r.difference
CycleDateOf(r) == r.cycle_date

---------------------------------------------------------------------------
\* C1: every loaded event whose start has local hour h and local date d has
\* cycle_date d - 1 if h < 6 and d otherwise (05:59 on 2024-01-10 belongs to
\* 2024-01-09, 06:00 to 2024-01-10).
C1_CycleByLocalHour ==
    \A r \in Range(df_raw) :
        r.cycle_date =
            IF LocalHour(r.time_started) < 6
            THEN (r.time_started \div (24 * 60)) - 1
            ELSE r.time_started \div (24 * 60)

---------------------------------------------------------------------------
\* indices of the history rows of cycle d and the key category that ended
\* strictly before the cut-off of d
ElapsedKeyRows(d) ==
    {i \in 1..Len(df_history) :
        /\ df_history[i].cycle_date = d
        /\ df_history[i].categories = similarity_category
        /\ df_history[i].time_ended < CutoffInstant(d)}

\* C2: once the similarity step has run, every historical cycle has exactly
\* one row of totals, and its key_category_total is the sum of the durations
\* of the cycle's key-category events that ended strictly before the
\* cycle's cut-off instant (06:00 of the cycle date + elapsed minutes).
C2_TotalUpToCutoff ==
    SimilarityRan =>
        /\ {h.cycle_date : h \in Range(historical_key_totals_df)} =
               {r.cycle_date : r \in Range(df_history)}
        /\ \A i, j \in 1..Len(historical_key_totals_df) :
               historical_key_totals_df[i].cycle_date =
                   historical_key_totals_df[j].cycle_date => i = j
        /\ \A h \in Range(historical_key_totals_df) :
               h.key_category_total =
                   SumAt(df_history, ElapsedKeyRows(h.cycle_date))

\* a key-category event with a positive duration ends exactly at the cut-off
\* of its cycle (and is left out), while another cycle has a positive total
C2_Witness ==
    /\ SimilarityRan
    /\ \E r \in Range(df_history) :
           /\ r.categories = similarity_category
           /\ r.duration_minutes > 0
           /\ r.time_ended = CutoffInstant(r.cycle_date)
           /\ \E h \in Range(historical_key_totals_df) :
                  h.cycle_date = r.cycle_date /\ h.key_category_total = 0
    /\ \E h \in Range(historical_key_totals_df) : h.key_category_total > 0

---------------------------------------------------------------------------
\* the 300 / 360 / 420 scenario with today's value 350 and tolerance 50
Scenario350 ==
    /\ Len(historical_key_totals_df) = 3
    /\ historical_key_totals_df[1].key_category_total = 300
    /\ historical_key_totals_df[2].key_category_total = 360
    /\ historical_key_totals_df[3].key_category_total = 420
    /\ today_key_value = 350
    /\ similarity_threshold = 50

\* C3: a historical cycle is among the similar days if and only if its
\* total is within the tolerance of today's value; in the 300 / 360 / 420
\* scenario the similar days are exactly the first two cycles.
C3_SimilarIffWithinTolerance ==
    SimilarityRan =>
        /\ \A h \in Range(historical_key_totals_df) :
               (\E k \in 1..Len(similar_days) : similar_days[k] = h.cycle_date)
               <=> /\ today_key_value - h.key_category_total
                          <= similarity_threshold
                   /\ h.key_category_total - today_key_value
                          <= similarity_threshold
        /\ \A k \in 1..Len(similar_days) :
               \E h \in Range(historical_key_totals_df) :
                   h.cycle_date = similar_days[k]
        /\ Scenario350 =>
               similar_days = << historical_key_totals_df[1].cycle_date,
                                 historical_key_totals_df[2].cycle_date >>

C3_Witness == SimilarityRan /\ Scenario350 /\ Len(similar_days) = 2

---------------------------------------------------------------------------
\* C4 as claimed: the similar cycles the projection consumes
\* (similar_days_df) are in ascending order of difference.
C4_SimilarDaysAscendingDifference ==
    SimilarityRan => IsAscendingBy(similar_days_df, DifferenceOf)

\* C4: the table of similar cycles that is displayed holds the rows of
\* similar_days_df in ascending order of difference, while similar_days_df
\* and similar_days themselves are in ascending order of cycle date.
C4_ShownAscendingDifference ==
    /\ SimilarityRan =>
           /\ IsAscendingBy(similar_days_df, CycleDateOf)
           /\ similar_days =
                  [k \in 1..Len(similar_days_df) |->
                      similar_days_df[k].cycle_date]
    /\ pc \in {"projection", "done"} =>
           /\ IsAscendingBy(shown_similar, DifferenceOf)
           /\ Len(shown_similar) = Len(similar_days_df)
           /\ \A r \in Range(similar_days_df) \cup Range(shown_similar) :
                  Count(shown_similar, r) = Count(similar_days_df, r)

\* the displayed table is a real rearrangement of similar_days_df
C4_Witness ==
    /\ pc = "projection"
    /\ Len(shown_similar) >= 2
    /\ shown_similar # similar_days_df
    /\ shown_similar[1].difference < shown_similar[2].difference

---------------------------------------------------------------------------
\* the displayed projection has an all-zero row for every main category
AllMainCategoriesZero ==
    \A k \in 1..Len(MAIN_CATEGORIES) :
        \E row \in Range(shown_projection) :
            /\ row.Categoria = MAIN_CATEGORIES[k]
            /\ row.min = 0 /\ row.mean = 0 /\ row.max = 0

\* C5 as claimed: a run whose history has no cycle still gets through the
\* similarity step, and a run whose similar set is empty ends with the
\* projection done and all-zero statistics for every main category; no run
\* raises.
C5_EmptyInputsYieldResults ==
    /\ pc # "error"
    /\ (Halted /\ df_history = <<>>) => SimilarityRan
    /\ (Halted /\ similar_days = <<>>) =>
           (pc = "done" /\ AllMainCategoriesZero)

\* C5: empty inputs never raise, but they end the run: with an empty loaded
\* log the run stops before the similarity step, and with an empty similar
\* set it stops before the projection step, which then produces nothing.
C5_EmptyInputsStopTheRun ==
    /\ pc # "error"
    /\ (pc # "load" /\ df_raw = <<>>) =>
           /\ pc \in {"loaded", "stopped_empty"}
           /\ historical_key_totals_df = <<>>
    /\ pc = "stopped_empty" => df_raw = <<>>
    /\ (SimilarityRan /\ similar_days = <<>>) =>
           /\ pc = "stopped_no_similar"
           /\ df_projection = <<>>
           /\ projection_final = <<>>
           /\ shown_projection = <<>>
    /\ pc \in {"projection", "done"} => similar_days # <<>>

\* a run that found no similar cycle in a non-empty history
C5_Witness ==
    /\ pc = "stopped_no_similar"
    /\ historical_key_totals_df # <<>>
    /\ similar_days = <<>>

---------------------------------------------------------------------------
\* indices of the history rows of cycle d that start at or after its cut-off
RemainingRows(d) ==
    {i \in 1..Len(df_history) :
        /\ df_history[i].cycle_date = d
        /\ df_history[i].time_started >= CutoffInstant(d)}

RemainingRowsOf(d, c) ==
    {i \in RemainingRows(d) : df_history[i].categories = c}

SimilarCycles == {similar_days[k] : k \in 1..Len(similar_days)}

\* the similar cycles in which category c has a remaining event
ObservedCycles(c) == {d \in SimilarCycles : RemainingRowsOf(d, c) # {}}

Observation(d, c) == SumAt(df_history, RemainingRowsOf(d, c))

---------------------------------------------------------------------------
\* C7: when the projection is done, the statistics table has a row for every
\* main category, and a main category with no remaining event in any similar
\* cycle has min = mean = max = 0.
C7_EveryMainCategoryReported ==
    pc = "done" =>
        \A k \in 1..Len(MAIN_CATEGORIES) :
            LET c == MAIN_CATEGORIES[k] IN
            /\ \E row \in Range(shown_projection) : row.Categoria = c
            /\ ObservedCycles(c) = {} =>
                   \A row \in Range(shown_projection) :
                       row.Categoria = c =>
                           row.min = 0 /\ row.mean = 0 /\ row.max = 0

---------------------------------------------------------------------------
\* the rows of df of cycle d, in the order of df
OfCycle(df, d) ==
    LET Keep(r) == r.cycle_date = d IN SelectSeq(df, Keep)

\* the remaining rows of cycle d, in the order of the loaded log
RemainingInLogOrder(d) ==
    LET Keep(r) == r.cycle_date = d /\ r.time_started >= CutoffInstant(d)
    IN  SelectSeq(df_history, Keep)

\* C8 as claimed: df_projection is ordered by cycle date and, within a cycle
\* date, by ascending start instant.
C8_OrderedByCycleThenStart ==
    pc = "done" =>
        \A i \in 1..(Len(df_projection) - 1) :
            \/ df_projection[i].cycle_date < df_projection[i + 1].cycle_date
            \/ /\ df_projection[i].cycle_date =
                      df_projection[i + 1].cycle_date
               /\ df_projection[i].time_started <=
                      df_projection[i + 1].time_started

\* C8: df_projection holds exactly the remaining events of the similar
\* cycles, each with the cycle_date of its cycle, ordered by cycle date and,
\* within a cycle date, in the order of the records in the input log.
C8_OrderedByCycleThenLogOrder ==
    pc = "done" =>
        /\ IsAscendingBy(df_projection, CycleDateOf)
        /\ \A r \in Range(df_projection) : r.cycle_date \in SimilarCycles
        /\ \A d \in SimilarCycles :
               OfCycle(df_projection, d) = RemainingInLogOrder(d)

\* two remaining events of one cycle appear in log order although the later
\* one starts earlier, and the log lists a later cycle before an earlier one
C8_Witness ==
    /\ pc = "done"
    /\ \E i \in 1..(Len(df_projection) - 1) :
           /\ df_projection[i].cycle_date = df_projection[i + 1].cycle_date
           /\ df_projection[i].time_started >
                  df_projection[i + 1].time_started
    /\ \E i \in 1..(Len(df_history) - 1) :
           df_history[i].cycle_date > df_history[i + 1].cycle_date
    /\ \E i \in 1..(Len(df_projection) - 1) :
           df_projection[i].cycle_date < df_projection[i + 1].cycle_date

---------------------------------------------------------------------------
HistoryRowsOf(c) ==
    {i \in 1..Len(df_history) : df_history[i].categories = c}

\* the cycles of the history in which category c occurs
CyclesOf(c) == {df_history[i].cycle_date : i \in HistoryRowsOf(c)}

OccursTwiceInACycle(c) ==
    \E i, j \in HistoryRowsOf(c) :
        i # j /\ df_history[i].cycle_date = df_history[j].cycle_date

\* the mean of avg_totals for c is the mean, over the cycles in which c
\* occurs, of the per-cycle sums of its durations
MeanIsOfPerCycleSums(c) ==
    LET rows == {j \in 1..Len(avg_totals) : avg_totals[j].Categoria = c}
    IN  IF HistoryRowsOf(c) = {}
        THEN rows = {}
        ELSE /\ Cardinality(rows) = 1
             /\ \A j \in rows :
                    /\ avg_totals[j].mean.den > 0
                    /\ avg_totals[j].mean.num * Cardinality(CyclesOf(c)) =
                           avg_totals[j].mean.den *
                               SumAt(df_history, HistoryRowsOf(c))

\* the mean of per-cycle sums and the mean of the event durations differ
\* (total / cycles # total / events, cross-multiplied)
MeansDiffer(c) ==
    SumAt(df_history, HistoryRowsOf(c)) * Cardinality(HistoryRowsOf(c)) #
        SumAt(df_history, HistoryRowsOf(c)) * Cardinality(CyclesOf(c))

SummaryDone == pc \in {"similarity", "stopped_no_similar", "projection", "done"}

\* C9 as claimed: the reported mean is the mean of the per-cycle sums, and
\* it differs from the mean of the event durations whenever the category
\* occurs more than once in a cycle.
C9_MeansDifferWheneverRepeated ==
    SummaryDone =>
        \A k \in 1..Len(CategoryOrder) :
            /\ MeanIsOfPerCycleSums(CategoryOrder[k])
            /\ OccursTwiceInACycle(CategoryOrder[k]) =>
                   MeansDiffer(CategoryOrder[k])

\* C9: the reported mean is the mean of the per-cycle sums, and it differs
\* from the mean of the event durations exactly when the category occurs
\* more than once in a cycle and its total duration is not zero.
C9_MeanOfPerCycleSums ==
    SummaryDone =>
        \A k \in 1..Len(CategoryOrder) :
            LET c == CategoryOrder[k] IN
            /\ MeanIsOfPerCycleSums(c)
            /\ MeansDiffer(c) <=>
                   /\ OccursTwiceInACycle(c)
                   /\ SumAt(df_history, HistoryRowsOf(c)) # 0

\* a category occurs twice in one cycle and once in another, with a
\* non-zero total
C9_Witness ==
    /\ SummaryDone
    /\ \E k \in 1..Len(CategoryOrder) :
           /\ OccursTwiceInACycle(CategoryOrder[k])
           /\ Cardinality(CyclesOf(CategoryOrder[k])) = 2
           /\ MeansDiffer(CategoryOrder[k])

---------------------------------------------------------------------------
\* C10: no record is both counted as elapsed by the similarity step (end
\* strictly before the cut-off of its cycle) and selected as remaining by
\* the projection step (start at or after that cut-off).
C10_ElapsedAndRemainingDisjoint ==
    pc = "done" =>
        \A i \in 1..Len(df_history) :
            ~ ( /\ df_history[i].time_ended <
                       CutoffInstant(df_history[i].cycle_date)
                /\ df_history[i].cycle_date \in SimilarCycles
                /\ \E r \in Range(df_projection) : r = df_history[i] )

===========================================================================
